---- MODULE Spec2Model ----
(***************************************************************************)
(* Model of the authentication subsystem of AutoPlanningBackend:           *)
(*   server::auth   (authorize, the Claims extractor, protected, KEYS)     *)
(*   model::user    (create_user)                                          *)
(*   util::password (StringPassword::hash_with_random_salt)                *)
(*   main           (startup, the second KEYS cell)                        *)
(* Requests are handled by concurrently scheduled tasks; the user table,   *)
(* the wall clock and the two lazily initialised key cells are shared.     *)
(***************************************************************************)
EXTENDS Integers, Sequences, FiniteSets, TLC

\* ------------------------------------------------------------------ bounds
NTasks == 2
MaxUsers == 2

\* --------------------------------------------------------------- constants
COST == 12
TokenTtl == 3600
Leeway == 60
BcryptMaxLen == 72
SECRET == "Free as in Freedom"

\* Option<T>: << >> is None, <<v>> is Some(v).
None == << >>
Some(v) == <<v>>
IsSome(o) == Len(o) = 1
Unwrap(o) == o[1]

\* ------------------------------------------------------------- input sets
Names == {"alice", "bob"}
LongPrefix == [i \in 1..BcryptMaxLen |-> 7]
PwShort == <<1>>
PwLongA == LongPrefix \o <<1>>
PwLongB == LongPrefix \o <<2>>
Passwords == {<< >>, PwShort, PwLongA, PwLongB}
NewPasswords == {PwShort, PwLongA}
Salts == {"s1"}
ReqIds == {None, Some(1)}
ReqNames == {None} \cup {Some(n) : n \in Names}
AuthPayload == [id : ReqIds, name : ReqNames, password : Passwords]
TimePoints == {0, TokenTtl - 1, TokenTtl}

\* ------------------------------------------------------- password hashing
\* bcrypt: the password is NUL-terminated and only its first 72 bytes are hashed.
Truncate(pw) ==
    LET v == pw \o <<0>>
    IN  IF Len(v) > BcryptMaxLen THEN SubSeq(v, 1, BcryptMaxLen) ELSE v

\* bcrypt::hash_with_salt, rendered by HashParts::to_string as "$2b$cost$salt+digest".
\* The digest is an injective function of (cost, salt, truncated password).
BcryptHash(pw, cost, salt) ==
    [prefix |-> "2b", cost |-> cost, salt |-> salt,
     digest |-> <<cost, salt, Truncate(pw)>>]

\* A stored string that does not parse as a bcrypt hash.
GarbageHash == [prefix |-> "??", cost |-> 0, salt |-> "", digest |-> <<0, "", << >> >>]

\* StringPassword::hash_with_random_salt: Err when getrandom fails, else the hash
\* under the freshly drawn salt.
hash_with_random_salt(pw, salt, rngFail) ==
    IF rngFail THEN [ok |-> FALSE, err |-> "Rand", hash |-> GarbageHash]
    ELSE [ok |-> TRUE, err |-> "", hash |-> BcryptHash(pw, COST, salt)]

\* bcrypt::verify: Err on an unparseable hash, else recompute under the hash's own
\* cost and salt and compare.
BcryptVerify(pw, stored) ==
    IF stored.prefix \notin {"2a", "2b", "2x", "2y"} THEN "err"
    ELSE IF BcryptHash(pw, stored.cost, stored.salt).digest = stored.digest
         THEN "match" ELSE "mismatch"

\* -------------------------------------------------------------- responses
NoResponse == [status |-> 0, body |-> [text |-> ""]]

\* AuthError::into_response
AuthErrorResponse(e) ==
    CASE e = "WrongCredentials"   -> [status |-> 401, body |-> [error |-> "Wrong credentials"]]
      [] e = "MissingCredentials" -> [status |-> 400, body |-> [error |-> "Missing credentials"]]
      [] e = "TokenCreation"      -> [status |-> 500, body |-> [error |-> "Token creation error"]]
      [] e = "InvalidToken"       -> [status |-> 400, body |-> [error |-> "Invalid token"]]
      [] e = "MissingToken"       -> [status |-> 400, body |-> [error |-> "Missing token"]]

\* util::error::internal_error: a 500 carrying the error's text.
internal_error(e) == [status |-> 500, body |-> [error |-> e]]

\* ----------------------------------------------------------------- tokens
\* Keys::new: both keys are derived from the one secret; inst tells instances apart.
KeysNew(secret, inst) == [encoding |-> secret, decoding |-> secret, inst |-> inst]

NoClaims == [id |-> 0, name |-> "", exp |-> 0]

\* HMAC over header and payload under a secret.
Sign(secret, alg, claims) == <<secret, alg, claims>>

\* jsonwebtoken::encode with Header::default() (HS256).
JwtEncode(claims, encodingKey) ==
    [form |-> "jws", alg |-> "HS256", claims |-> claims,
     sig |-> Sign(encodingKey, "HS256", claims)]

\* A bearer string that is not three base64url segments.
MalformedToken ==
    [form |-> "garbage", alg |-> "", claims |-> NoClaims, sig |-> Sign("", "", NoClaims)]

\* jsonwebtoken::decode under Validation::new(HS256): structure, algorithm,
\* signature, then exp with the default leeway of 60 seconds.
JwtDecode(token, decodingKey, t) ==
    IF token.form # "jws" THEN [ok |-> FALSE, err |-> "InvalidToken", claims |-> NoClaims]
    ELSE IF token.alg # "HS256"
         THEN [ok |-> FALSE, err |-> "InvalidAlgorithm", claims |-> NoClaims]
    ELSE IF token.sig # Sign(decodingKey, token.alg, token.claims)
         THEN [ok |-> FALSE, err |-> "InvalidSignature", claims |-> NoClaims]
    ELSE IF token.claims.exp < t - Leeway
         THEN [ok |-> FALSE, err |-> "ExpiredSignature", claims |-> NoClaims]
    ELSE [ok |-> TRUE, err |-> "", claims |-> token.claims]

\* AuthBody::new
AuthBody(token) ==
    [status |-> 200, body |-> [access_token |-> token, token_type |-> "Bearer"]]

\* protected: the welcome text, which prints the claims (Display for Claims).
Welcome(claims) ==
    [status |-> 200,
     body |-> [text |-> "Welcome to the protected area :)", id |-> claims.id,
               name |-> claims.name, expire |-> claims.exp]]

\* ------------------------------------------------------------------ state
VARIABLES
    serving,     \* main has built the router and is accepting requests
    mainKeys,    \* main::KEYS, a LazyLock cell
    authKeys,    \* server::auth::KEYS, a LazyLock cell
    keysBuilt,   \* number of Keys::new calls made so far
    keyUses,     \* instances of key material used by encode and decode so far
    users,       \* the user table, in insertion order
    registered,  \* (name, password) pairs whose registration returned "ok"
    now,         \* chrono::Utc::now().timestamp()
    tasks        \* one record per request-handling task

vars == <<serving, mainKeys, authKeys, keysBuilt, keyUses, users, registered, now, tasks>>

Tasks == 1..NTasks

NoKeys == KeysNew("", 0)
UninitCell == [st |-> "uninit", owner |-> 0, keys |-> NoKeys]

\* A row written before this process started whose password_hash column does not
\* hold a bcrypt string.
LegacyRow == [id |-> 1, name |-> "root", password_hash |-> GarbageHash]

NoPayload == [id |-> None, name |-> None, password |-> << >>]
NoHeader == [present |-> FALSE, scheme |-> "", token |-> MalformedToken]

IdleTask ==
    [kind |-> "none", pc |-> "done", payload |-> NoPayload, header |-> NoHeader,
     row |-> None, claims |-> NoClaims, at |-> 0, lookups |-> 0, verifies |-> 0,
     inserts |-> 0, cause |-> "", resp |-> NoResponse]

Init ==
    /\ serving = FALSE
    /\ mainKeys = UninitCell
    /\ authKeys = UninitCell
    /\ keysBuilt = 0
    /\ keyUses = {}
    /\ users \in {<< >>, <<LegacyRow>>}
    /\ registered = {}
    /\ now = 0
    /\ tasks = [t \in Tasks |-> IdleTask]

\* ---------------------------------------------------------------- startup
\* main: KEYS.deref() forces main::KEYS while the router is built, then serve.
Main ==
    /\ ~serving
    /\ mainKeys' = [st |-> "done", owner |-> 0, keys |-> KeysNew(SECRET, keysBuilt + 1)]
    /\ keysBuilt' = keysBuilt + 1
    /\ serving' = TRUE
    /\ UNCHANGED <<authKeys, keyUses, users, registered, now, tasks>>

\* The wall clock moves forward.
Tick ==
    /\ \E t \in TimePoints : t > now /\ now' = t
    /\ UNCHANGED <<serving, mainKeys, authKeys, keysBuilt, keyUses, users, registered, tasks>>

\* ------------------------------------------------- LazyLock<Keys> (auth)
\* First access by a task that needs the key: it claims the initialisation;
\* every other task that needs the key waits until the cell is done.
KeysInitBegin(t) ==
    /\ tasks[t].pc \in {"sign", "decode"}
    /\ authKeys.st = "uninit"
    /\ authKeys' = [st |-> "running", owner |-> t, keys |-> NoKeys]
    /\ UNCHANGED <<serving, mainKeys, keysBuilt, keyUses, users, registered, now, tasks>>

\* The closure runs: Keys::new(secret.as_bytes()).
KeysInitEnd(t) ==
    /\ authKeys.st = "running"
    /\ authKeys.owner = t
    /\ authKeys' = [st |-> "done", owner |-> 0, keys |-> KeysNew(SECRET, keysBuilt + 1)]
    /\ keysBuilt' = keysBuilt + 1
    /\ UNCHANGED <<serving, mainKeys, keyUses, users, registered, now, tasks>>

\* --------------------------------------------------------------- authorize
\* (mutation) the name arm comes before the id arm.
AuthorizeQueryNameFirst(payload) ==
    IF payload.password = << >> THEN [ok |-> FALSE, err |-> "MissingCredentials", by |-> ""]
    ELSE IF IsSome(payload.name) THEN [ok |-> TRUE, err |-> "", by |-> "name"]
    ELSE IF IsSome(payload.id) THEN [ok |-> TRUE, err |-> "", by |-> "id"]
    ELSE [ok |-> FALSE, err |-> "MissingToken", by |-> ""]

\* (mutation) the identity is examined before the password.
AuthorizeQueryIdentityFirst(payload) ==
    IF IsSome(payload.id) THEN [ok |-> TRUE, err |-> "", by |-> "id"]
    ELSE IF IsSome(payload.name) THEN [ok |-> TRUE, err |-> "", by |-> "name"]
    ELSE IF payload.password = << >>
         THEN [ok |-> FALSE, err |-> "MissingCredentials", by |-> ""]
    ELSE [ok |-> FALSE, err |-> "MissingToken", by |-> ""]

\* The match on the payload: which query is built, or which early return.
AuthorizeQuery(payload) ==
    IF payload.password = << >> THEN [ok |-> FALSE, err |-> "MissingCredentials", by |-> ""]
    ELSE IF IsSome(payload.id) THEN [ok |-> TRUE, err |-> "", by |-> "id"]
    ELSE IF IsSome(payload.name) THEN [ok |-> TRUE, err |-> "", by |-> "name"]
    ELSE [ok |-> FALSE, err |-> "MissingToken", by |-> ""]

\* Indices of the rows the built query selects.
Matching(store, payload, by) ==
    {i \in 1..Len(store) :
        IF by = "id" THEN store[i].id = Unwrap(payload.id)
        ELSE store[i].name = Unwrap(payload.name)}

Min(S) == CHOOSE x \in S : \A y \in S : x <= y

\* query.fetch_one(&pool): the first selected row; an error when the database
\* fails or selects no row.
FetchOne(store, payload, by, dbFail) ==
    LET m == Matching(store, payload, by)
    IN  IF dbFail \/ m = {} THEN None ELSE Some(store[Min(m)])

\* (mutation) the negation of the verify result is lost.
PasswordCheckNoMismatch(password, row) ==
    LET v == BcryptVerify(password, row.password_hash)
    IN  IF v = "err" THEN [ok |-> FALSE, err |-> "WrongCredentials", cause |-> "verify_error"]
        ELSE [ok |-> TRUE, err |-> "", cause |-> ""]

\* The error a failed fetch_one is mapped to.
FetchErrorWrongCredentials == "WrongCredentials"

FetchError == "InvalidToken"

\* bcrypt::verify(payload.password, &password_hash) and the two ways out of it.
PasswordCheck(password, row) ==
    LET v == BcryptVerify(password, row.password_hash)
    IN  IF v = "err" THEN [ok |-> FALSE, err |-> "WrongCredentials", cause |-> "verify_error"]
        ELSE IF v = "mismatch"
             THEN [ok |-> FALSE, err |-> "WrongCredentials", cause |-> "wrong_password"]
        ELSE [ok |-> TRUE, err |-> "", cause |-> ""]

\* (mutation) the name is taken from the request when it carries one.
IssueClaimsFromPayload(row, payload, t) ==
    [id |-> row.id,
     name |-> IF IsSome(payload.name) THEN Unwrap(payload.name) ELSE row.name,
     exp |-> t + TokenTtl]

\* The claims built from the row that was fetched: exp one hour from now.
IssueClaims(row, payload, t) == [id |-> row.id, name |-> row.name, exp |-> t + TokenTtl]

Reject(task, e, cause) ==
    [task EXCEPT !.pc = "done", !.cause = cause, !.resp = AuthErrorResponse(e)]

\* authorize up to the point where the signing key is needed.
AuthorizeStep(payload, store, dbFail, t) ==
    LET q    == AuthorizeQuery(payload)
        base == [IdleTask EXCEPT !.kind = "authorize", !.payload = payload]
    IN  IF ~q.ok
        THEN Reject(base, q.err,
                    IF q.err = "MissingCredentials" THEN "empty_password" ELSE "no_identity")
        ELSE
        LET f     == FetchOne(store, payload, q.by, dbFail)
            asked == [base EXCEPT !.lookups = 1]
        IN  IF ~IsSome(f)
            THEN Reject(asked, FetchError,
                        IF dbFail THEN "db_error" ELSE "lookup_failed")
            ELSE
            LET row   == Unwrap(f)
                c     == PasswordCheck(payload.password, row)
                found == [asked EXCEPT !.row = Some(row),
                                       !.verifies = 1]
            IN  IF ~c.ok THEN Reject(found, c.err, c.cause)
                ELSE [found EXCEPT !.pc = "sign", !.at = t,
                                   !.claims = IssueClaims(row, payload, t)]

Authorize(t, payloads) ==
    /\ serving
    /\ tasks[t].pc = "done"
    /\ \E payload \in payloads, dbFail \in BOOLEAN :
          tasks' = [tasks EXCEPT ![t] = AuthorizeStep(payload, users, dbFail, now)]
    /\ UNCHANGED <<serving, mainKeys, authKeys, keysBuilt, keyUses, users, registered, now>>

\* jsonwebtoken::encode(&Header::default(), &claims, &KEYS.encoding) and the reply.
SignStep(task, keys, signFail) ==
    IF signFail THEN Reject(task, "TokenCreation", "sign_failed")
    ELSE [task EXCEPT !.pc = "done", !.cause = "ok",
                      !.resp = AuthBody(JwtEncode(task.claims, keys.encoding))]

AuthorizeSign(t) ==
    /\ tasks[t].pc = "sign"
    /\ authKeys.st = "done"
    /\ \E signFail \in BOOLEAN :
          tasks' = [tasks EXCEPT ![t] = SignStep(tasks[t], authKeys.keys, signFail)]
    /\ keyUses' = keyUses \cup {authKeys.keys.inst}
    /\ UNCHANGED <<serving, mainKeys, authKeys, keysBuilt, users, registered, now>>

\* ------------------------------------------- Claims::from_request_parts
\* parts.extract::<TypedHeader<Authorization<Bearer>>>(): the bearer token, or a
\* rejection when the header is absent or its scheme is not Bearer.
ExtractBearer(header) ==
    IF ~header.present THEN [ok |-> FALSE, cause |-> "no_header"]
    ELSE IF header.scheme # "Bearer" THEN [ok |-> FALSE, cause |-> "not_bearer"]
    ELSE [ok |-> TRUE, cause |-> ""]

\* (mutation) expiry is reported with an error of its own.
ExtractorErrorByCause(cause) ==
    IF cause = "expired" THEN "WrongCredentials" ELSE "InvalidToken"

\* The AuthError every rejection of the extractor is mapped to, whatever its cause.
ExtractorError(cause) == "InvalidToken"

\* The extractor up to the point where the verification key is needed.
ExtractStep(header) ==
    LET base == [IdleTask EXCEPT !.kind = "protected", !.header = header]
        b    == ExtractBearer(header)
    IN  IF ~b.ok THEN Reject(base, ExtractorError(b.cause), b.cause)
        ELSE [base EXCEPT !.pc = "decode"]

\* (mutation) the handler's own test is missing: only decode's test is left.
ExpiredNever(claims, t) == FALSE

\* The handler's own expiry test on the decoded claims.
Expired(claims, t) == claims.exp <= t

DecodeCause(err) ==
    CASE err = "InvalidToken"     -> "malformed"
      [] err = "InvalidAlgorithm" -> "bad_algorithm"
      [] err = "InvalidSignature" -> "bad_signature"
      [] err = "ExpiredSignature" -> "expired_beyond_leeway"

\* decode, the expiry test, then the protected handler with the claims. decode
\* and the handler each read the clock; the two reads are taken at one instant t.
DecodeStep(task, keys, t) ==
    LET d     == JwtDecode(task.header.token, keys.decoding, t)
        timed == [task EXCEPT !.at = t]
    IN  IF ~d.ok
        THEN Reject(timed, ExtractorError(DecodeCause(d.err)), DecodeCause(d.err))
        ELSE IF Expired(d.claims, t)
        THEN Reject(timed, ExtractorError("expired"), "expired")
        ELSE [timed EXCEPT !.pc = "done", !.cause = "ok", !.claims = d.claims,
                           !.resp = Welcome(d.claims)]

\* Tokens a client can hold: those in the replies of finished logins, and
\* strings made elsewhere (by an earlier run of the server under the same
\* secret, or by anyone).
IssuedTokens ==
    {tasks[t].resp.body.access_token :
        t \in {u \in Tasks : tasks[u].kind = "authorize" /\ tasks[u].pc = "done"
                             /\ tasks[u].cause = "ok"}}

ForeignClaims(e) == [id |-> 1, name |-> "alice", exp |-> e]

ForeignTokens ==
    {MalformedToken}
    \cup {[form |-> "jws", alg |-> "HS256", claims |-> ForeignClaims(now + 1),
           sig |-> Sign("guess", "HS256", ForeignClaims(now + 1))]}
    \cup {[form |-> "jws", alg |-> "HS384", claims |-> ForeignClaims(now + 1),
           sig |-> Sign(SECRET, "HS384", ForeignClaims(now + 1))]}
    \cup {JwtEncode(ForeignClaims(e), SECRET) :
            e \in {now - Leeway - 1, now - Leeway, now - 1, now, now + 1}}

Headers(foreign) ==
    {NoHeader, [present |-> TRUE, scheme |-> "Basic", token |-> MalformedToken]}
    \cup {[present |-> TRUE, scheme |-> "Bearer", token |-> k] :
            k \in IssuedTokens \cup foreign}

Protected(t, foreign) ==
    /\ serving
    /\ tasks[t].pc = "done"
    /\ \E header \in Headers(foreign) : tasks' = [tasks EXCEPT ![t] = ExtractStep(header)]
    /\ UNCHANGED <<serving, mainKeys, authKeys, keysBuilt, keyUses, users, registered, now>>

ProtectedDecode(t) ==
    /\ tasks[t].pc = "decode"
    /\ authKeys.st = "done"
    /\ tasks' = [tasks EXCEPT ![t] = DecodeStep(tasks[t], authKeys.keys, now)]
    /\ keyUses' = keyUses \cup {authKeys.keys.inst}
    /\ UNCHANGED <<serving, mainKeys, authKeys, keysBuilt, users, registered, now>>

\* ------------------------------------------------------------- create_user
\* The id the table gives a new row (AUTO_INCREMENT).
NextId(store) == Len(store) + 1

\* create_user: hash under a fresh salt, then one INSERT; either failure is
\* turned into a response by internal_error.
CreateUserStep(name, pw, salt, rngFail, dbFail) ==
    LET h    == hash_with_random_salt(pw, salt, rngFail)
        base == [IdleTask EXCEPT !.kind = "create_user",
                                 !.payload = [id |-> None, name |-> Some(name), password |-> pw]]
    IN  IF ~h.ok
        THEN [base EXCEPT !.cause = "rand_failed", !.resp = internal_error(h.err)]
        ELSE IF dbFail
        THEN [base EXCEPT !.cause = "insert_failed", !.resp = internal_error("Database")]
        ELSE [base EXCEPT !.cause = "ok", !.inserts = 1,
                          !.resp = [status |-> 200, body |-> [text |-> "ok"]]]

CreateUser(t, names, passwords) ==
    /\ serving
    /\ tasks[t].pc = "done"
    /\ Len(users) < MaxUsers
    /\ \E name \in names, pw \in passwords, salt \in Salts, rngFail \in BOOLEAN,
          dbFail \in BOOLEAN :
          LET task == CreateUserStep(name, pw, salt, rngFail, dbFail)
          IN  /\ tasks' = [tasks EXCEPT ![t] = task]
              /\ users' = IF task.inserts = 1
                          THEN Append(users,
                                 [id |-> NextId(users), name |-> name,
                                  password_hash |-> hash_with_random_salt(pw, salt, rngFail).hash])
                          ELSE users
              /\ registered' = IF task.inserts = 1
                               THEN registered \cup {[name |-> name, password |-> pw]}
                               ELSE registered
    /\ UNCHANGED <<serving, mainKeys, authKeys, keysBuilt, keyUses, now>>

\* ----------------------------------------------------------- specification
\* One request in flight at a time, over the whole input space.
Next ==
    \/ Main
    \/ Tick
    \/ KeysInitBegin(1)
    \/ KeysInitEnd(1)
    \/ Authorize(1, AuthPayload)
    \/ AuthorizeSign(1)
    \/ Protected(1, ForeignTokens)
    \/ ProtectedDecode(1)
    \/ CreateUser(1, Names, NewPasswords)

Spec == Init /\ [][Next]_vars

\* Requests racing on every task, over a few representative inputs.
RacePayloads == {[id |-> None, name |-> Some("alice"), password |-> PwShort]}

NextRace ==
    \/ Main
    \/ Tick
    \/ \E t \in Tasks : KeysInitBegin(t)
    \/ \E t \in Tasks : KeysInitEnd(t)
    \/ \E t \in Tasks : Authorize(t, RacePayloads)
    \/ \E t \in Tasks : AuthorizeSign(t)
    \/ \E t \in Tasks : Protected(t, {MalformedToken})
    \/ \E t \in Tasks : ProtectedDecode(t)
    \/ \E t \in Tasks : CreateUser(t, {"alice"}, {PwShort})

SpecRace == Init /\ [][NextRace]_vars

\* ------------------------------------------------------------ properties
Finished(t, kind) == tasks[t].kind = kind /\ tasks[t].pc = "done"

HasToken(resp) == "access_token" \in DOMAIN resp.body

BearerHeader(token) == [present |-> TRUE, scheme |-> "Bearer", token |-> token]

\* What the extractor and the protected handler answer to a header at time t.
ExtractorResponse(header, keys, t) ==
    LET s == ExtractStep(header)
    IN  IF s.pc = "done" THEN s.resp ELSE DecodeStep(s, keys, t).resp

\* What authorize answers to a payload when neither the database nor the
\* signature fails.
AuthorizeResponse(payload, store, keys, t) ==
    LET s == AuthorizeStep(payload, store, FALSE, t)
    IN  IF s.pc = "done" THEN s.resp ELSE SignStep(s, keys, FALSE).resp

\* C1: a login answers 200 with an access_token only if the lookup returned a row
\* and the password verified against that row's stored hash; when the lookup
\* returned a row and the password does not match it, the answer is
\* WrongCredentials (401) and carries no token.
C1_TokenOnlyAfterVerify ==
    \A t \in Tasks : Finished(t, "authorize") =>
        LET k == tasks[t]
        IN  /\ (k.resp.status = 200 \/ HasToken(k.resp)) =>
                  /\ IsSome(k.row)
                  /\ \E i \in 1..Len(users) : users[i] = Unwrap(k.row)
                  /\ BcryptVerify(k.payload.password, Unwrap(k.row).password_hash) = "match"
            /\ (IsSome(k.row)
                /\ BcryptVerify(k.payload.password, Unwrap(k.row).password_hash) = "mismatch") =>
                  /\ k.resp = AuthErrorResponse("WrongCredentials")
                  /\ k.resp.status = 401
                  /\ ~HasToken(k.resp)

\* A login that found its row and was refused for a password that does not match.
C1_Witness ==
    \E t \in Tasks :
        /\ Finished(t, "authorize")
        /\ IsSome(tasks[t].row)
        /\ BcryptVerify(tasks[t].payload.password, Unwrap(tasks[t].row).password_hash)
              = "mismatch"
        /\ tasks[t].resp.status = 401

\* A bearer token that is well formed and signed under the server's secret.
ValidlySigned(token) ==
    /\ token.form = "jws"
    /\ token.alg = "HS256"
    /\ token.sig = Sign(SECRET, "HS256", token.claims)

\* C2: a bearer token with a valid signature is accepted by the extractor if and
\* only if its exp is strictly greater than the time of verification; exp = now
\* and exp < now are rejected, the decoder's leeway notwithstanding.
C2_AcceptedIffNotExpired ==
    \A t \in Tasks :
        (/\ Finished(t, "protected")
         /\ tasks[t].header.present
         /\ tasks[t].header.scheme = "Bearer"
         /\ ValidlySigned(tasks[t].header.token)) =>
            /\ (tasks[t].resp.status = 200) <=> (tasks[t].header.token.claims.exp > tasks[t].at)
            /\ tasks[t].resp.status # 200 => tasks[t].resp = AuthErrorResponse("InvalidToken")

\* A validly signed token whose exp equals the time of verification was rejected.
C2_Witness ==
    \E t \in Tasks :
        /\ Finished(t, "protected")
        /\ tasks[t].header.scheme = "Bearer"
        /\ ValidlySigned(tasks[t].header.token)
        /\ tasks[t].header.token.claims.exp = tasks[t].at
        /\ tasks[t].resp.status = 400

\* Instants strictly inside the lifetime of a token issued at time at.
Within(at) == {u \in TimePoints \cup {at, at + TokenTtl - 1} : u < at + TokenTtl}

\* C3: the token a successful login issued at time at is accepted by the extractor
\* at every time strictly before at + 3600 under the same key material, and the
\* claims it yields are the id and name of the row that was looked up and
\* exp = at + 3600.
C3_RoundTrip ==
    \A t \in Tasks :
        (Finished(t, "authorize") /\ tasks[t].cause = "ok") =>
            LET k      == tasks[t]
                issued == [id |-> Unwrap(k.row).id, name |-> Unwrap(k.row).name,
                           exp |-> k.at + TokenTtl]
            IN  /\ k.resp.body.access_token.claims = issued
                /\ \A u \in Within(k.at) :
                      ExtractorResponse(BearerHeader(k.resp.body.access_token),
                                        authKeys.keys, u) = Welcome(issued)

\* A login by id succeeded while its request named somebody else.
C3_Witness ==
    \E t \in Tasks :
        /\ Finished(t, "authorize")
        /\ tasks[t].cause = "ok"
        /\ IsSome(tasks[t].payload.name)
        /\ Unwrap(tasks[t].payload.name) # Unwrap(tasks[t].row).name
        /\ now = tasks[t].at + TokenTtl - 1

\* C4: a request that carries an Authorization header and is rejected by the
\* extractor gets the InvalidToken response (400, "Invalid token") whatever the
\* cause; any two headers rejected at the same instant get identical responses;
\* the protected handler does not run.
C4_RejectionsCollapse ==
    /\ \A t \in Tasks :
          (Finished(t, "protected") /\ tasks[t].header.present /\ tasks[t].cause # "ok") =>
              /\ tasks[t].resp = AuthErrorResponse("InvalidToken")
              /\ tasks[t].resp.status = 400
              /\ tasks[t].resp.body.error = "Invalid token"
    /\ authKeys.st = "done" =>
          Cardinality({r \in {ExtractorResponse(h, authKeys.keys, now) :
                                h \in {g \in Headers(ForeignTokens) : g.present}} :
                         r.status # 200}) <= 1

\* A token with a valid signature was rejected for its expiry alone.
C4_Witness ==
    \E t \in Tasks :
        /\ Finished(t, "protected")
        /\ tasks[t].cause = "expired"
        /\ tasks[t].resp.status = 400

\* C5: a request without any Authorization header is rejected with MissingToken.
C5_NoHeaderIsMissingToken ==
    \A t \in Tasks :
        (Finished(t, "protected") /\ ~tasks[t].header.present) =>
            /\ tasks[t].cause # "ok"
            /\ tasks[t].resp = AuthErrorResponse("MissingToken")

\* The lookup of a payload's credential fails on the current table.
UnknownIdentity(payload) ==
    LET q == AuthorizeQuery(payload)
    IN  q.ok /\ ~IsSome(FetchOne(users, payload, q.by, FALSE))

\* The lookup succeeds and the password does not match the row found.
KnownWithWrongPassword(payload) ==
    LET q == AuthorizeQuery(payload)
    IN  /\ q.ok
        /\ IsSome(FetchOne(users, payload, q.by, FALSE))
        /\ BcryptVerify(payload.password,
                        Unwrap(FetchOne(users, payload, q.by, FALSE)).password_hash)
              = "mismatch"

\* C6 as claimed: a login whose lookup fails is answered InvalidToken, and that
\* answer has the same status and body as the answer to a login for a known
\* identity with a wrong password.
C6_LookupFailureIndistinguishable ==
    \A p1, p2 \in AuthPayload :
        (UnknownIdentity(p1) /\ KnownWithWrongPassword(p2)) =>
            /\ AuthorizeResponse(p1, users, authKeys.keys, now) = AuthErrorResponse("InvalidToken")
            /\ AuthorizeResponse(p1, users, authKeys.keys, now)
                  = AuthorizeResponse(p2, users, authKeys.keys, now)

\* C6 (amended): a login whose lookup fails is answered InvalidToken (400,
\* "Invalid token"); a login for a known identity with a wrong password is
\* answered WrongCredentials (401, "Wrong credentials"), so the two differ in
\* status and in body.
C6_LookupFailureIsInvalidToken ==
    /\ \A t \in Tasks :
          (Finished(t, "authorize") /\ tasks[t].lookups = 1 /\ ~IsSome(tasks[t].row)) =>
              /\ tasks[t].resp = AuthErrorResponse("InvalidToken")
              /\ tasks[t].resp.status = 400
    /\ \A p \in AuthPayload :
          /\ UnknownIdentity(p) =>
                /\ AuthorizeResponse(p, users, authKeys.keys, now)
                      = AuthErrorResponse("InvalidToken")
                /\ AuthorizeResponse(p, users, authKeys.keys, now).status = 400
          /\ KnownWithWrongPassword(p) =>
                /\ AuthorizeResponse(p, users, authKeys.keys, now)
                      = AuthErrorResponse("WrongCredentials")
                /\ AuthorizeResponse(p, users, authKeys.keys, now).status = 401
    /\ AuthErrorResponse("InvalidToken").body # AuthErrorResponse("WrongCredentials").body

\* A login for an identity the table does not hold was answered, while the table
\* holds a row another login could get wrong.
C6_Witness ==
    /\ \E t \in Tasks :
          /\ Finished(t, "authorize")
          /\ tasks[t].cause = "lookup_failed"
          /\ tasks[t].resp.status = 400
    /\ \E p \in AuthPayload : KnownWithWrongPassword(p)

\* C7: a login with an empty password is answered MissingCredentials whatever
\* identifiers it carries; otherwise a login with neither id nor name is answered
\* MissingToken; in both cases no lookup, no password verification, no token.
C7_ValidationOrder ==
    \A t \in Tasks : Finished(t, "authorize") =>
        LET k == tasks[t]
            quiet == k.lookups = 0 /\ k.verifies = 0 /\ ~IsSome(k.row) /\ ~HasToken(k.resp)
        IN  /\ k.payload.password = << >> =>
                  k.resp = AuthErrorResponse("MissingCredentials") /\ quiet
            /\ (k.payload.password # << >> /\ k.payload.id = None /\ k.payload.name = None) =>
                  k.resp = AuthErrorResponse("MissingToken") /\ quiet

\* A login with an empty password that named an identity the table holds.
C7_Witness ==
    \E t \in Tasks :
        /\ Finished(t, "authorize")
        /\ tasks[t].payload.password = << >>
        /\ IsSome(tasks[t].payload.id)
        /\ \E i \in 1..Len(users) : users[i].id = Unwrap(tasks[t].payload.id)
        /\ tasks[t].resp.status = 400

\* C8: the process constructs its key material exactly once, it never changes,
\* and every encode and decode uses that one instance.
C8_SingleKeyMaterial ==
    /\ keysBuilt <= 1
    /\ Cardinality(keyUses) <= 1
    /\ (mainKeys.st = "done" /\ authKeys.st = "done") => mainKeys.keys = authKeys.keys
    /\ \A i \in keyUses : mainKeys.st = "done" /\ mainKeys.keys.inst = i

\* C9: a request that met a hashing, random-source or signing failure is answered
\* with a 5xx status, inserts no row and returns no token.
C9_FaultsAreServerFaults ==
    \A t \in Tasks :
        (tasks[t].pc = "done"
         /\ tasks[t].cause \in {"rand_failed", "verify_error", "sign_failed"}) =>
            /\ tasks[t].resp.status >= 500
            /\ tasks[t].inserts = 0
            /\ ~HasToken(tasks[t].resp)

\* The name was registered once, with this non-empty password.
RegisteredOnce(n, p) ==
    /\ p # << >>
    /\ [name |-> n, password |-> p] \in registered
    /\ Cardinality({i \in 1..Len(users) : users[i].name = n}) = 1

\* C10: once (n, p) is registered, a login by name n with p is answered 200 with
\* a token that /auth/protected accepts before its expiry with a body naming n,
\* and a login by name n with another (non-empty) password is answered 401.
\* Requests that met a database or signing failure are left aside.
C10_RegisterThenLogin ==
    \A t \in Tasks :
        (/\ Finished(t, "authorize")
         /\ tasks[t].cause \notin {"db_error", "sign_failed"}
         /\ tasks[t].payload.id = None
         /\ IsSome(tasks[t].payload.name)
         /\ tasks[t].payload.password # << >>) =>
            \A p \in Passwords :
                RegisteredOnce(Unwrap(tasks[t].payload.name), p) =>
                    LET k == tasks[t]
                    IN  IF k.payload.password = p
                        THEN /\ k.resp.status = 200
                             /\ HasToken(k.resp)
                             /\ \A u \in Within(k.at) :
                                   LET r == ExtractorResponse(
                                              BearerHeader(k.resp.body.access_token),
                                              authKeys.keys, u)
                                   IN  r.status = 200 /\ r.body.name = Unwrap(k.payload.name)
                        ELSE k.resp.status = 401

\* C11: a login that carries an id and a name (and a non-empty password) is
\* looked up by id alone: requests that differ only in the name get the same
\* answer, the row found is the row of that id, and on success the claims carry
\* the name stored for that id.
C11_LookupByIdAlone ==
    /\ \A i \in ReqIds \ {None}, pw \in Passwords \ {<< >>} :
          Cardinality({AuthorizeResponse([id |-> i, name |-> n, password |-> pw],
                                         users, authKeys.keys, now) :
                          n \in ReqNames \ {None}}) = 1
    /\ \A t \in Tasks :
          (/\ Finished(t, "authorize")
           /\ IsSome(tasks[t].payload.id)
           /\ IsSome(tasks[t].payload.name)
           /\ tasks[t].payload.password # << >>) =>
              LET k == tasks[t]
              IN  /\ k.lookups = 1
                  /\ IsSome(k.row) => Unwrap(k.row).id = Unwrap(k.payload.id)
                  /\ (~IsSome(k.row) /\ k.cause # "db_error") =>
                        \A j \in 1..Len(users) : users[j].id # Unwrap(k.payload.id)
                  /\ k.cause = "ok" =>
                        /\ k.resp.body.access_token.claims.id = Unwrap(k.payload.id)
                        /\ k.resp.body.access_token.claims.name = Unwrap(k.row).name

\* A login by id succeeded under the stored name while its request carried the
\* name of another row of the table.
C11_Witness ==
    \E t \in Tasks :
        /\ Finished(t, "authorize")
        /\ tasks[t].cause = "ok"
        /\ IsSome(tasks[t].payload.id)
        /\ IsSome(tasks[t].payload.name)
        /\ tasks[t].resp.body.access_token.claims.name # Unwrap(tasks[t].payload.name)
        /\ \E j \in 1..Len(users) :
              /\ users[j].name = Unwrap(tasks[t].payload.name)
              /\ users[j].id # Unwrap(tasks[t].payload.id)

====
